---- MODULE Spec2Model ----
(***************************************************************************)
(* url-shortener: the dual-backend coordinator (multiStorage.DualStorage)  *)
(* over the relational adapter (sqlite.Storage) and the document adapter   *)
(* (mongodb.Storage).                                                      *)
(*                                                                         *)
(* Every coordinator operation is one action.  An adapter call takes a     *)
(* `fault` input: 0 when every statement of the call executes, k when the  *)
(* k-th statement of the call fails in the driver (connection lost, disk   *)
(* error, cancelled context).                                              *)
(***************************************************************************)
EXTENDS Bags, FiniteSets, Integers, Sequences, TLC

\* ------------------------------------------------------------------ bounds

\* The largest row id the users table is let to assign, and the largest
\* ownerID a caller passes.
MaxUserID == 2

\* The most documents the urls collection is let to hold while requests run
\* concurrently.
MaxDocuments == 3

Nicknames == {"alice", "bob"}
Hashes    == {"h1", "h2"}
Aliases   == {"x", "y"}
URLs      == {"http://a", "http://b"}
UserIDs   == 1..MaxUserID
Operations == {"SaveURL", "GetURL", "DeleteURL", "SaveUser", "GetUserByNickname",
               "DeleteUserByNickname"}

\* The second in which the documents' ObjectIDs are made.  It is Unix time:
\* far above every row id in reach.
Timestamps == {MaxUserID + 1000}

\* The goroutines of the HTTP server that serve requests at the same time.
Threads == {"t1", "t2"}

VARIABLES
    sqliteUsers,   \* table users: rows [id, nickname, password_hash]
    sqliteUrls,    \* table urls: rows [alias, url, user_id]
    mongoUsers,    \* collection users: bag of [_id, nickname, password_hash, user_id]
    mongoUrls,     \* collection urls: bag of [url, alias, user_id]
    foreignKeys,   \* whether the sqlite connection enforces FOREIGN KEY clauses
    last,          \* the last coordinator call: its arguments and what it returned
    running        \* per goroutine, the coordinator call it is in and where

vars == <<sqliteUsers, sqliteUrls, mongoUsers, mongoUrls, foreignKeys, last, running>>

\* ------------------------------------------------------------------ errors
\* An error value: `is` is the sentinel errors.Is finds in its chain ("opaque"
\* when there is none), `text` the message, as a sequence of its parts.

ErrNil == [is |-> "nil", text |-> <<>>]

ErrURLNotFound == [is |-> "ErrURLNotFound", text |-> <<"Url not found">>]

ErrURLExists == [is |-> "ErrURLExists", text |-> <<"Url exists">>]

ErrUserExists == [is |-> "ErrUserExists", text |-> <<"User exists">>]

ErrUserNotFound == [is |-> "ErrUserNotFound", text |-> <<"User not found">>]

ErrUnauthorized == [is |-> "ErrUnauthorized", text |-> <<"Unauthorized">>]

\* sql.ErrNoRows, as QueryRow(...).Scan returns it.
ErrNoRows == [is |-> "sql.ErrNoRows", text |-> <<"sql: no rows in result set">>]

\* A failure of the driver itself: no sentinel of the repository in its chain.
DriverError(db) == [is |-> "opaque", text |-> <<db \o " driver error">>]

\* fmt.Errorf("%s: %w", op, err): the chain is kept, the message prefixed.
Errorf_w(op, err) == [is |-> err.is, text |-> <<op>> \o err.text]

\* fmt.Errorf("<prefix>: %v", err): only the text is kept, the chain is lost.
Errorf_v(prefix, err) == [is |-> "opaque", text |-> <<prefix>> \o err.text]

\* errors.New(msg)
ErrorsNew(msg) == [is |-> "opaque", text |-> <<msg>>]

\* The domain kind of section 4.1 a caller reads off an error with errors.Is.
Kind(err) ==
    CASE err.is = "nil" -> "nil"
      [] err.is \in {"ErrURLNotFound", "ErrUserNotFound"} -> "NotFound"
      [] err.is \in {"ErrURLExists", "ErrUserExists"} -> "AlreadyExists"
      [] err.is = "ErrUnauthorized" -> "Unauthorized"
      [] OTHER -> "Operational"

\* ------------------------------------------------------------------ sqlite

SetMax(S) == CHOOSE m \in S : \A n \in S : n <= m

\* users.id is INTEGER PRIMARY KEY without AUTOINCREMENT: an insert that gives
\* no id gets one more than the largest id in the table now, 1 in an empty one.
NextRowID(users) ==
    IF users = {} THEN 1 ELSE SetMax({r.id : r \in users}) + 1

\* sqlite_SaveURL as it would be with INSERT OR REPLACE: an alias already in
\* the table is overwritten.  C7 has to tell it from sqlite_SaveURL.
sqlite_SaveURL_Replace(users, urls, fk, urlToSave, alias, userID, fault) ==
    LET op == "storage.sqlite.SaveURL" IN
    IF fault \in {1, 2}
    THEN [urls |-> urls, err |-> Errorf_w(op, DriverError("sqlite"))]
    ELSE IF fk /\ ~(\E u \in users : u.id = userID)
    THEN [urls |-> urls,
          err |-> Errorf_w(op, ErrorsNew("FOREIGN KEY constraint failed"))]
    ELSE [urls |-> {r \in urls : r.alias # alias}
                   \cup {[alias |-> alias, url |-> urlToSave, user_id |-> userID]},
          err |-> ErrNil]

\* INSERT INTO urls: Prepare (1), Exec (2).
sqlite_SaveURL(users, urls, fk, urlToSave, alias, userID, fault) ==
    LET op == "storage.sqlite.SaveURL" IN
    IF fault \in {1, 2}
    THEN [urls |-> urls, err |-> Errorf_w(op, DriverError("sqlite"))]
    ELSE IF \E r \in urls : r.alias = alias
    THEN [urls |-> urls, err |-> Errorf_w(op, ErrURLExists)]
    ELSE IF fk /\ ~(\E u \in users : u.id = userID)
    THEN [urls |-> urls,
          err |-> Errorf_w(op, ErrorsNew("FOREIGN KEY constraint failed"))]
    ELSE [urls |-> urls \cup {[alias |-> alias, url |-> urlToSave, user_id |-> userID]},
          err |-> ErrNil]

\* sqlite_GetURL as it would be with the third read selecting the alias column.
\* C6 has to tell it from sqlite_GetURL.
sqlite_GetURL_Alias(urls, alias, userID, fault) ==
    LET op == "storage.sqlite.GetURL"
        rows == {r \in urls : r.alias = alias}
        failed == [url |-> "", err |-> Errorf_w(op, DriverError("sqlite"))]
    IN
    IF fault = 1 THEN failed
    ELSE IF rows = {} THEN [url |-> "", err |-> ErrURLNotFound]
    ELSE IF fault = 2 THEN failed
    ELSE LET row == CHOOSE r \in rows : TRUE IN
         IF row.user_id # userID THEN [url |-> "", err |-> ErrUnauthorized]
         ELSE IF fault = 3 THEN failed
         ELSE [url |-> row.alias, err |-> ErrNil]

\* Three reads: SELECT 1 (1), SELECT user_id (2), SELECT url (3).
sqlite_GetURL(urls, alias, userID, fault) ==
    LET op == "storage.sqlite.GetURL"
        rows == {r \in urls : r.alias = alias}
        failed == [url |-> "", err |-> Errorf_w(op, DriverError("sqlite"))]
    IN
    IF fault = 1 THEN failed
    ELSE IF rows = {} THEN [url |-> "", err |-> ErrURLNotFound]
    ELSE IF fault = 2 THEN failed
    ELSE LET row == CHOOSE r \in rows : TRUE IN
         IF row.user_id # userID THEN [url |-> "", err |-> ErrUnauthorized]
         ELSE IF fault = 3 THEN failed
         ELSE [url |-> row.url, err |-> ErrNil]

\* SELECT user_id (1), DELETE (2).
sqlite_DeleteURL(urls, alias, userID, fault) ==
    LET op == "storage.sqlite.DeleteURL"
        rows == {r \in urls : r.alias = alias}
        failed == [urls |-> urls, err |-> Errorf_w(op, DriverError("sqlite"))]
    IN
    IF fault = 1 THEN failed
    ELSE IF rows = {} THEN [urls |-> urls, err |-> Errorf_w(op, ErrURLNotFound)]
    ELSE IF (CHOOSE r \in rows : TRUE).user_id # userID
    THEN [urls |-> urls, err |-> Errorf_w(op, ErrUnauthorized)]
    ELSE IF fault = 2 THEN failed
    ELSE [urls |-> urls \ rows, err |-> ErrNil]

\* INSERT INTO users: Prepare (1), Exec (2).
sqlite_SaveUser(users, nickname, passwordHash, fault) ==
    LET op == "storage.sqlite.SaveUser" IN
    IF fault \in {1, 2}
    THEN [users |-> users, id |-> 0, err |-> Errorf_w(op, DriverError("sqlite"))]
    ELSE IF \E u \in users : u.nickname = nickname
    THEN [users |-> users, id |-> 0, err |-> Errorf_w(op, ErrUserExists)]
    ELSE LET id == NextRowID(users) IN
         [users |-> users \cup {[id |-> id, nickname |-> nickname,
                                 password_hash |-> passwordHash]},
          id |-> id, err |-> ErrNil]

\* SELECT id, password_hash: Prepare (1), QueryRow (2).
sqlite_GetUserByNickname(users, nickname, fault) ==
    LET op == "storage.sqlite.GetUserByNickname"
        rows == {u \in users : u.nickname = nickname}
    IN
    IF fault \in {1, 2}
    THEN [id |-> 0, hash |-> "", err |-> Errorf_w(op, DriverError("sqlite"))]
    ELSE IF rows = {} THEN [id |-> 0, hash |-> "", err |-> ErrUserNotFound]
    ELSE LET u == CHOOSE r \in rows : TRUE IN
         [id |-> u.id, hash |-> u.password_hash, err |-> ErrNil]

\* sqlite_DeleteUserByNickname as it would be without the check of urlCount.
\* C11 has to tell it from sqlite_DeleteUserByNickname.
sqlite_DeleteUserByNickname_NoCount(users, urls, nickname, fault) ==
    LET op == "storage.sqlite.DeleteUserByNickname"
        rows == {u \in users : u.nickname = nickname}
        failed == [users |-> users, urls |-> urls,
                   err |-> Errorf_w(op, DriverError("sqlite"))]
    IN
    IF fault \in {1, 2} THEN failed
    ELSE IF rows = {}
    THEN [users |-> users, urls |-> urls, err |-> Errorf_w(op, ErrNoRows)]
    ELSE LET userID == (CHOOSE r \in rows : TRUE).id
             owned == {r \in urls : r.user_id = userID}
         IN
         IF fault \in {3, 4, 5, 6} THEN failed
         ELSE [users |-> users \ rows, urls |-> urls \ owned, err |-> ErrNil]

\* sqlite_DeleteUserByNickname as it would be with its statements sent outside
\* a transaction: a failure of DELETE users or of what follows leaves the URLs
\* deleted.  C19 has to tell it from sqlite_DeleteUserByNickname.
sqlite_DeleteUserByNickname_NoTx(users, urls, nickname, fault) ==
    LET op == "storage.sqlite.DeleteUserByNickname"
        rows == {u \in users : u.nickname = nickname}
        failed(us, ls) == [users |-> us, urls |-> ls,
                           err |-> Errorf_w(op, DriverError("sqlite"))]
    IN
    IF fault \in {1, 2} THEN failed(users, urls)
    ELSE IF rows = {}
    THEN [users |-> users, urls |-> urls, err |-> Errorf_w(op, ErrNoRows)]
    ELSE LET userID == (CHOOSE r \in rows : TRUE).id
             owned == {r \in urls : r.user_id = userID}
         IN
         IF fault = 3 THEN failed(users, urls)
         ELSE IF owned = {}
         THEN [users |-> users, urls |-> urls,
               err |-> ErrorsNew(op \o ": no URLs found for user")]
         ELSE IF fault = 4 THEN failed(users, urls)
         ELSE IF fault = 5 THEN failed(users, urls \ owned)
         ELSE IF fault = 6 THEN failed(users \ rows, urls \ owned)
         ELSE [users |-> users \ rows, urls |-> urls \ owned, err |-> ErrNil]

\* One transaction: Begin (1), SELECT id (2), SELECT COUNT (3), DELETE urls (4),
\* DELETE users (5), Commit (6).  Every early return rolls back.
sqlite_DeleteUserByNickname(users, urls, nickname, fault) ==
    LET op == "storage.sqlite.DeleteUserByNickname"
        rows == {u \in users : u.nickname = nickname}
        failed == [users |-> users, urls |-> urls,
                   err |-> Errorf_w(op, DriverError("sqlite"))]
    IN
    IF fault \in {1, 2} THEN failed
    ELSE IF rows = {}
    THEN [users |-> users, urls |-> urls, err |-> Errorf_w(op, ErrNoRows)]
    ELSE LET userID == (CHOOSE r \in rows : TRUE).id
             owned == {r \in urls : r.user_id = userID}
         IN
         IF fault = 3 THEN failed
         ELSE IF owned = {}
         THEN [users |-> users, urls |-> urls,
               err |-> ErrorsNew(op \o ": no URLs found for user")]
         ELSE IF fault \in {4, 5, 6} THEN failed
         ELSE [users |-> users \ rows, urls |-> urls \ owned, err |-> ErrNil]

\* ------------------------------------------------------------------ mongodb
\* A collection is a bag of documents: nothing in the store keeps two equal
\* documents from being inserted.  FindOne and DeleteOne take one of the matching
\* documents, whichever the store meets first.

\* The _id InsertOne gives a document that has none: an ObjectID, whose first
\* four bytes are its creation time in seconds.
ObjectID(ts) == [bson |-> "objectID", v |-> ts]

\* A Go int64 as a BSON value.
Int64(n) == [bson |-> "int64", v |-> n]

ByAlias(coll, alias) == {d \in BagToSet(coll) : d.alias = alias}

ByNickname(coll, nickname) == {d \in BagToSet(coll) : d.nickname = nickname}

\* bson.M{"_id": value}: BSON compares type and value.
ByID(coll, value) == {d \in BagToSet(coll) : d._id = value}

InsertOne(coll, doc) == coll (+) SetToBag({doc})

\* The collections DeleteOne can leave: one matching document less, or the
\* collection as it was when nothing matches (DeletedCount 0, no error).
DeleteOne(coll, matching) ==
    IF matching = {} THEN {coll} ELSE {coll (-) SetToBag({d}) : d \in matching}

\* collectionURLs.DeleteMany(bson.M{"user_id": userID})
DeleteManyByUserID(coll, userID) ==
    LET keep == {d \in BagToSet(coll) : d.user_id # userID} IN
    [d \in keep |-> coll[d]]

\* CountDocuments (1), InsertOne (2).
mongodb_SaveURL(urls, urlToSave, alias, userID, fault) ==
    LET op == "mongodb.SaveURL"
        doc == [url |-> urlToSave, alias |-> alias, user_id |-> userID]
    IN
    IF fault = 1
    THEN {[urls |-> urls, err |-> Errorf_w(op, DriverError("mongo"))]}
    ELSE IF ByAlias(urls, alias) # {}
    THEN {[urls |-> urls, err |-> Errorf_w(op, ErrURLExists)]}
    ELSE IF fault = 2
    THEN {[urls |-> urls, err |-> Errorf_w(op, DriverError("mongo"))]}
    ELSE {[urls |-> InsertOne(urls, doc), err |-> ErrNil]}

\* mongodb_GetURL as it would be without the translation of
\* mongo.ErrNoDocuments.  C12 has to tell it from mongodb_GetURL.
mongodb_GetURL_NoDocuments(urls, alias, userID, fault) ==
    LET op == "mongodb.GetURL"
        found == ByAlias(urls, alias)
    IN
    IF fault = 1
    THEN {[url |-> "", err |-> Errorf_w(op, DriverError("mongo"))]}
    ELSE IF found = {}
    THEN {[url |-> "", err |-> Errorf_w(op, ErrorsNew("mongo: no documents in result"))]}
    ELSE {IF doc.user_id # userID
          THEN [url |-> "", err |-> ErrUnauthorized]
          ELSE [url |-> doc.url, err |-> ErrNil] : doc \in found}

\* mongodb_GetURL as it would be without the comparison of user_id.  C2 has to
\* tell it from mongodb_GetURL.
mongodb_GetURL_AnyOwner(urls, alias, userID, fault) ==
    LET op == "mongodb.GetURL"
        found == ByAlias(urls, alias)
    IN
    IF fault = 1
    THEN {[url |-> "", err |-> Errorf_w(op, DriverError("mongo"))]}
    ELSE IF found = {} THEN {[url |-> "", err |-> ErrURLNotFound]}
    ELSE {[url |-> doc.url, err |-> ErrNil] : doc \in found}

\* FindOne (1).
mongodb_GetURL(urls, alias, userID, fault) ==
    LET op == "mongodb.GetURL"
        found == ByAlias(urls, alias)
    IN
    IF fault = 1
    THEN {[url |-> "", err |-> Errorf_w(op, DriverError("mongo"))]}
    ELSE IF found = {} THEN {[url |-> "", err |-> ErrURLNotFound]}
    ELSE {IF doc.user_id # userID
          THEN [url |-> "", err |-> ErrUnauthorized]
          ELSE [url |-> doc.url, err |-> ErrNil] : doc \in found}

\* FindOne (1), DeleteOne (2).
mongodb_DeleteURL(urls, alias, userID, fault) ==
    LET op == "mongodb.DeleteURL"
        found == ByAlias(urls, alias)
        failed == [urls |-> urls, err |-> Errorf_w(op, DriverError("mongo"))]
    IN
    IF fault = 1 THEN {failed}
    ELSE IF found = {} THEN {[urls |-> urls, err |-> ErrURLNotFound]}
    ELSE UNION {IF doc.user_id # userID
                THEN {[urls |-> urls, err |-> ErrUnauthorized]}
                ELSE IF fault = 2 THEN {failed}
                ELSE {[urls |-> left, err |-> ErrNil] : left \in DeleteOne(urls, found)}
                : doc \in found}

\* CountDocuments (1), InsertOne (2); ts is the second the ObjectID is made in.
mongodb_SaveUser(users, nickname, passwordHash, userID, ts, fault) ==
    LET op == "mongodb.SaveUser"
        doc == [_id |-> ObjectID(ts), nickname |-> nickname,
                password_hash |-> passwordHash, user_id |-> userID]
    IN
    IF fault = 1
    THEN {[users |-> users, err |-> Errorf_w(op, DriverError("mongo"))]}
    ELSE IF ByNickname(users, nickname) # {}
    THEN {[users |-> users, err |-> Errorf_w(op, ErrUserExists)]}
    ELSE IF fault = 2
    THEN {[users |-> users, err |-> Errorf_w(op, DriverError("mongo"))]}
    ELSE {[users |-> InsertOne(users, doc), err |-> ErrNil]}

\* FindOne (1).  The id returned is the creation time of the document's
\* ObjectID, int64(doc.ID.Timestamp().Unix()), not its user_id field.
mongodb_GetUserByNickname(users, nickname, fault) ==
    LET op == "mongodb.GetUserByNickname"
        found == ByNickname(users, nickname)
    IN
    IF fault = 1
    THEN {[id |-> 0, hash |-> "", err |-> Errorf_w(op, DriverError("mongo"))]}
    ELSE IF found = {} THEN {[id |-> 0, hash |-> "", err |-> ErrUserNotFound]}
    ELSE {[id |-> doc._id.v, hash |-> doc.password_hash, err |-> ErrNil] : doc \in found}

\* StartSession (1), then inside WithSession, which starts no transaction:
\* FindOne (2), DeleteMany by the document's user_id (3), DeleteOne by
\* {"_id": doc.ID} with doc.ID the int64 user_id (4).
mongodb_DeleteUserByNickname(users, urls, nickname, fault) ==
    LET op == "mongodb.DeleteUserByNickname"
        found == ByNickname(users, nickname)
        wrap(e) == Errorf_w(op, e)
        failed(us, ls) == [users |-> us, urls |-> ls,
                           err |-> wrap(Errorf_w(op, DriverError("mongo")))]
    IN
    IF fault \in {1, 2} THEN {failed(users, urls)}
    ELSE IF found = {}
    THEN {[users |-> users, urls |-> urls, err |-> wrap(ErrUserNotFound)]}
    ELSE UNION {
        IF fault = 3 THEN {failed(users, urls)}
        ELSE LET urlsLeft == DeleteManyByUserID(urls, doc.user_id) IN
             IF fault = 4 THEN {failed(users, urlsLeft)}
             ELSE {[users |-> usersLeft, urls |-> urlsLeft, err |-> ErrNil]
                   : usersLeft \in DeleteOne(users, ByID(users, Int64(doc.user_id)))}
        : doc \in found}

\* ------------------------------------------------------------------ coordinator
\* db is the four stores and the connection's setting.  A coordinator call
\* yields the set of results it can end in: the stores it leaves (db), what it
\* returns, and what each adapter answered (mongoErr is NotCalled when the
\* document adapter was not called).  The stores are what the adapters
\* left, whether they answered with an error or not.

NotCalled == [is |-> "not called", text |-> <<>>]

\* DualStorage_SaveURL as it would be if a failed document write took the
\* relational row back.  C14 has to tell it from DualStorage_SaveURL.
DualStorage_SaveURL_Rollback(db, urlToSave, alias, userID, sf, mf) ==
    LET s == sqlite_SaveURL(db.sqliteUsers, db.sqliteUrls, db.foreignKeys,
                            urlToSave, alias, userID, sf)
    IN
    IF s.err # ErrNil
    THEN {[db |-> [db EXCEPT !.sqliteUrls = s.urls],
           err |-> s.err, sqliteErr |-> s.err, mongoErr |-> NotCalled]}
    ELSE {[db |-> IF m.err # ErrNil THEN db
                  ELSE [db EXCEPT !.sqliteUrls = s.urls, !.mongoUrls = m.urls],
           err |-> m.err, sqliteErr |-> s.err, mongoErr |-> m.err]
          : m \in mongodb_SaveURL(db.mongoUrls, urlToSave, alias, userID, mf)}

DualStorage_SaveURL(db, urlToSave, alias, userID, sf, mf) ==
    LET s == sqlite_SaveURL(db.sqliteUsers, db.sqliteUrls, db.foreignKeys,
                            urlToSave, alias, userID, sf)
    IN
    IF s.err # ErrNil
    THEN {[db |-> [db EXCEPT !.sqliteUrls = s.urls],
           err |-> s.err, sqliteErr |-> s.err, mongoErr |-> NotCalled]}
    ELSE {[db |-> [db EXCEPT !.sqliteUrls = s.urls, !.mongoUrls = m.urls],
           err |-> m.err, sqliteErr |-> s.err, mongoErr |-> m.err]
          : m \in mongodb_SaveURL(db.mongoUrls, urlToSave, alias, userID, mf)}

\* DualStorage_GetURL as it would be if a relational Unauthorized were final.
\* C16 has to tell it from DualStorage_GetURL.
DualStorage_GetURL_UnauthorizedFinal(db, alias, userID, sf, mf) ==
    LET s == sqlite_GetURL(db.sqliteUrls, alias, userID, sf) IN
    IF s.err = ErrNil \/ Kind(s.err) = "Unauthorized"
    THEN {[db |-> db, url |-> s.url, err |-> s.err,
           sqliteErr |-> s.err, mongoErr |-> NotCalled]}
    ELSE {[db |-> db, url |-> IF m.err # ErrNil THEN "" ELSE m.url, err |-> m.err,
           sqliteErr |-> s.err, mongoErr |-> m.err]
          : m \in mongodb_GetURL(db.mongoUrls, alias, userID, mf)}

DualStorage_GetURL(db, alias, userID, sf, mf) ==
    LET s == sqlite_GetURL(db.sqliteUrls, alias, userID, sf) IN
    IF s.err = ErrNil
    THEN {[db |-> db, url |-> s.url, err |-> ErrNil,
           sqliteErr |-> s.err, mongoErr |-> NotCalled]}
    ELSE {[db |-> db, url |-> IF m.err # ErrNil THEN "" ELSE m.url, err |-> m.err,
           sqliteErr |-> s.err, mongoErr |-> m.err]
          : m \in mongodb_GetURL(db.mongoUrls, alias, userID, mf)}

\* DualStorage_DeleteURL as it would be if it answered nil whenever the
\* relational row was removed.  C27 has to tell it from DualStorage_DeleteURL.
DualStorage_DeleteURL_NilAfterRelational(db, alias, userID, sf, mf) ==
    LET s == sqlite_DeleteURL(db.sqliteUrls, alias, userID, sf) IN
    IF s.err # ErrNil
    THEN {[db |-> [db EXCEPT !.sqliteUrls = s.urls],
           err |-> s.err, sqliteErr |-> s.err, mongoErr |-> NotCalled]}
    ELSE {[db |-> [db EXCEPT !.sqliteUrls = s.urls, !.mongoUrls = m.urls],
           err |-> ErrNil, sqliteErr |-> s.err, mongoErr |-> m.err]
          : m \in mongodb_DeleteURL(db.mongoUrls, alias, userID, mf)}

\* DualStorage_DeleteURL as it would be if it went on to the document adapter
\* after a relational NotFound.  C15 has to tell it from DualStorage_DeleteURL.
DualStorage_DeleteURL_Both(db, alias, userID, sf, mf) ==
    LET s == sqlite_DeleteURL(db.sqliteUrls, alias, userID, sf) IN
    IF s.err # ErrNil /\ Kind(s.err) # "NotFound"
    THEN {[db |-> [db EXCEPT !.sqliteUrls = s.urls],
           err |-> s.err, sqliteErr |-> s.err, mongoErr |-> NotCalled]}
    ELSE {[db |-> [db EXCEPT !.sqliteUrls = s.urls, !.mongoUrls = m.urls],
           err |-> IF s.err # ErrNil THEN s.err ELSE m.err,
           sqliteErr |-> s.err, mongoErr |-> m.err]
          : m \in mongodb_DeleteURL(db.mongoUrls, alias, userID, mf)}

DualStorage_DeleteURL(db, alias, userID, sf, mf) ==
    LET s == sqlite_DeleteURL(db.sqliteUrls, alias, userID, sf) IN
    IF s.err # ErrNil
    THEN {[db |-> [db EXCEPT !.sqliteUrls = s.urls],
           err |-> s.err, sqliteErr |-> s.err, mongoErr |-> NotCalled]}
    ELSE {[db |-> [db EXCEPT !.sqliteUrls = s.urls, !.mongoUrls = m.urls],
           err |-> m.err, sqliteErr |-> s.err, mongoErr |-> m.err]
          : m \in mongodb_DeleteURL(db.mongoUrls, alias, userID, mf)}

DualStorage_SaveUser(db, nickname, passwordHash, ts, sf, mf) ==
    LET s == sqlite_SaveUser(db.sqliteUsers, nickname, passwordHash, sf) IN
    IF s.err # ErrNil
    THEN {[db |-> [db EXCEPT !.sqliteUsers = s.users],
           err |-> s.err, sqliteErr |-> s.err, mongoErr |-> NotCalled]}
    ELSE {[db |-> [db EXCEPT !.sqliteUsers = s.users, !.mongoUsers = m.users],
           err |-> m.err, sqliteErr |-> s.err, mongoErr |-> m.err]
          : m \in mongodb_SaveUser(db.mongoUsers, nickname, passwordHash, s.id, ts, mf)}

\* MergeUser as it would be if the case of two failures reported the relational
\* one alone.  C9 has to tell it from MergeUser.
MergeUser_FirstCause(s, m) ==
    CASE s.err = ErrNil /\ m.err = ErrNil ->
            [userID |-> s.id, hash |-> s.hash, err |-> ErrNil]
      [] s.err # ErrNil /\ m.err # ErrNil ->
            [userID |-> 0, hash |-> "", err |-> Errorf_w("SQLite error", s.err)]
      [] s.err # ErrNil /\ m.err = ErrNil ->
            [userID |-> m.id, hash |-> "", err |-> Errorf_v("SQLite error", s.err)]
      [] OTHER ->
            [userID |-> s.id, hash |-> s.hash, err |-> Errorf_v("MongoDB error", m.err)]

\* MergeUser as it would be if the case of two successes returned the document
\* backend's password hash.  C10 has to tell it from MergeUser.
MergeUser_DocumentHash(s, m) ==
    CASE s.err = ErrNil /\ m.err = ErrNil ->
            [userID |-> s.id, hash |-> m.hash, err |-> ErrNil]
      [] s.err # ErrNil /\ m.err # ErrNil ->
            [userID |-> 0, hash |-> "",
             err |-> [is |-> "opaque",
                      text |-> <<"SQLite error">> \o s.err.text
                               \o <<"MongoDB error">> \o m.err.text]]
      [] s.err # ErrNil /\ m.err = ErrNil ->
            [userID |-> m.id, hash |-> "", err |-> Errorf_v("SQLite error", s.err)]
      [] OTHER ->
            [userID |-> s.id, hash |-> s.hash, err |-> Errorf_v("MongoDB error", m.err)]

\* The switch of GetUserByNickname on the two adapters' errors.
MergeUser(s, m) ==
    CASE s.err = ErrNil /\ m.err = ErrNil ->
            [userID |-> s.id, hash |-> s.hash, err |-> ErrNil]
      [] s.err # ErrNil /\ m.err # ErrNil ->
            [userID |-> 0, hash |-> "",
             err |-> [is |-> "opaque",
                      text |-> <<"SQLite error">> \o s.err.text
                               \o <<"MongoDB error">> \o m.err.text]]
      [] s.err # ErrNil /\ m.err = ErrNil ->
            [userID |-> m.id, hash |-> "", err |-> Errorf_v("SQLite error", s.err)]
      [] OTHER ->
            [userID |-> s.id, hash |-> s.hash, err |-> Errorf_v("MongoDB error", m.err)]

DualStorage_GetUserByNickname(db, nickname, sf, mf) ==
    LET s == sqlite_GetUserByNickname(db.sqliteUsers, nickname, sf) IN
    {LET r == MergeUser(s, m) IN
     [db |-> db, userID |-> r.userID, hash |-> r.hash, err |-> r.err,
      sqliteErr |-> s.err, mongoErr |-> m.err]
     : m \in mongodb_GetUserByNickname(db.mongoUsers, nickname, mf)}

DualStorage_DeleteUserByNickname(db, nickname, sf, mf) ==
    LET s == sqlite_DeleteUserByNickname(db.sqliteUsers, db.sqliteUrls, nickname, sf) IN
    IF s.err # ErrNil
    THEN {[db |-> [db EXCEPT !.sqliteUsers = s.users, !.sqliteUrls = s.urls],
           err |-> s.err, sqliteErr |-> s.err, mongoErr |-> NotCalled]}
    ELSE {[db |-> [db EXCEPT !.sqliteUsers = s.users, !.sqliteUrls = s.urls,
                             !.mongoUsers = m.users, !.mongoUrls = m.urls],
           err |-> m.err, sqliteErr |-> s.err, mongoErr |-> m.err]
          : m \in mongodb_DeleteUserByNickname(db.mongoUsers, db.mongoUrls, nickname, mf)}

\* ------------------------------------------------------------------ actions
\* A scope c says which inputs the callers of a run draw from (c.nicknames,
\* c.hashes, c.aliases, c.urls), whether adapter calls fail in the driver
\* (c.faulty), and which operations' calls `last` keeps (c.observe); after a
\* call of any other operation `last` is NoCall.

DB == [sqliteUsers |-> sqliteUsers, sqliteUrls |-> sqliteUrls,
       mongoUsers |-> mongoUsers, mongoUrls |-> mongoUrls,
       foreignKeys |-> foreignKeys]

\* The stores after a call; the connection's setting never changes.
Becomes(db) ==
    /\ sqliteUsers' = db.sqliteUsers
    /\ sqliteUrls' = db.sqliteUrls
    /\ mongoUsers' = db.mongoUsers
    /\ mongoUrls' = db.mongoUrls
    /\ UNCHANGED <<foreignKeys, running>>

\* The fault inputs <<sf, mf>> of one call: sf for the relational call of ns
\* statements, mf for the document call of nm statements, each 0 or the number
\* of the statement that fails.  stops = TRUE for the four operations that stop
\* at a relational error: there a relational fault leaves the document adapter
\* uncalled, and its fault input is 0.
Faults(c, ns, nm, stops) ==
    IF ~c.faulty THEN {<<0, 0>>}
    ELSE {f \in (0..ns) \X (0..nm) : stops /\ f[1] # 0 => f[2] = 0}

NoCall ==
    [op |-> "none", nickname |-> "", alias |-> "", userID |-> 0, url |-> "",
     hash |-> "", retUserID |-> 0, retURL |-> "", retHash |-> "",
     err |-> ErrNil, sqliteErr |-> NotCalled, mongoErr |-> NotCalled]

\* A goroutine that is in no coordinator call.
Idle == [pc |-> "idle", alias |-> "", url |-> "", userID |-> 0]

\* What `last` keeps of a call: the arguments given (the others "" or 0), the
\* values returned, the error returned and each adapter's own error.
Call(c, op, nickname, alias, userID, url, hash, retUserID, retURL, retHash, r) ==
    IF op \notin c.observe THEN NoCall
    ELSE [op |-> op, nickname |-> nickname, alias |-> alias, userID |-> userID,
          url |-> url, hash |-> hash,
          retUserID |-> retUserID, retURL |-> retURL, retHash |-> retHash,
          err |-> r.err, sqliteErr |-> r.sqliteErr, mongoErr |-> r.mongoErr]

Init ==
    /\ sqliteUsers = {}
    /\ sqliteUrls = {}
    /\ mongoUsers = EmptyBag
    /\ mongoUrls = EmptyBag
    /\ foreignKeys \in BOOLEAN
    /\ last = NoCall
    /\ running = [t \in Threads |-> Idle]

SaveURL(c) ==
    \E urlToSave \in c.urls, alias \in c.aliases, userID \in UserIDs,
       f \in Faults(c, 2, 2, TRUE) :
        \E r \in DualStorage_SaveURL(DB, urlToSave, alias, userID, f[1], f[2]) :
            /\ Becomes(r.db)
            /\ last' = Call(c, "SaveURL", "", alias, userID, urlToSave, "",
                            0, "", "", r)

GetURL(c) ==
    \E alias \in c.aliases, userID \in UserIDs, f \in Faults(c, 3, 1, FALSE) :
        \E r \in DualStorage_GetURL(DB, alias, userID, f[1], f[2]) :
            /\ Becomes(r.db)
            /\ last' = Call(c, "GetURL", "", alias, userID, "", "", 0, r.url, "", r)

DeleteURL(c) ==
    \E alias \in c.aliases, userID \in UserIDs, f \in Faults(c, 2, 2, TRUE) :
        \E r \in DualStorage_DeleteURL(DB, alias, userID, f[1], f[2]) :
            /\ Becomes(r.db)
            /\ last' = Call(c, "DeleteURL", "", alias, userID, "", "", 0, "", "", r)

SaveUser(c) ==
    \E nickname \in c.nicknames, passwordHash \in c.hashes, ts \in Timestamps,
       f \in Faults(c, 2, 2, TRUE) :
        /\ NextRowID(sqliteUsers) <= MaxUserID
        /\ \E r \in DualStorage_SaveUser(DB, nickname, passwordHash, ts, f[1], f[2]) :
            /\ Becomes(r.db)
            /\ last' = Call(c, "SaveUser", nickname, "", 0, "", passwordHash,
                            0, "", "", r)

GetUserByNickname(c) ==
    \E nickname \in c.nicknames, f \in Faults(c, 2, 1, FALSE) :
        \E r \in DualStorage_GetUserByNickname(DB, nickname, f[1], f[2]) :
            /\ Becomes(r.db)
            /\ last' = Call(c, "GetUserByNickname", nickname, "", 0, "", "",
                            r.userID, "", r.hash, r)

DeleteUserByNickname(c) ==
    \E nickname \in c.nicknames, f \in Faults(c, 6, 4, TRUE) :
        \E r \in DualStorage_DeleteUserByNickname(DB, nickname, f[1], f[2]) :
            /\ Becomes(r.db)
            /\ last' = Call(c, "DeleteUserByNickname", nickname, "", 0, "", "",
                            0, "", "", r)

Step(c) ==
    \/ SaveURL(c)
    \/ GetURL(c)
    \/ DeleteURL(c)
    \/ SaveUser(c)
    \/ GetUserByNickname(c)
    \/ DeleteUserByNickname(c)

\* Healthy backends: two users, two aliases, every call observed.
Scope ==
    [nicknames |-> Nicknames, hashes |-> {"h1"}, aliases |-> Aliases,
     urls |-> {"http://a"}, faulty |-> FALSE, observe |-> Operations]

Next == Step(Scope)

Spec == Init /\ [][Next]_vars

\* Failing backends: one user with two password hashes, one alias to own;
\* the calls of GetUserByNickname observed.
ScopeGetUser ==
    [nicknames |-> {"alice"}, hashes |-> Hashes, aliases |-> {"x"},
     urls |-> {"http://a"}, faulty |-> TRUE, observe |-> {"GetUserByNickname"}]

NextGetUser == Step(ScopeGetUser)

SpecGetUser == Init /\ [][NextGetUser]_vars

\* Failing backends: one alias with two target URLs, one user; the calls of
\* SaveURL and GetURL observed.
ScopeURL ==
    [nicknames |-> {"alice"}, hashes |-> {"h1"}, aliases |-> {"x"},
     urls |-> URLs, faulty |-> TRUE, observe |-> {"SaveURL", "GetURL"}]

NextURL == Step(ScopeURL)

SpecURL == Init /\ [][NextURL]_vars

\* Failing backends: one user, two aliases to own; the calls of
\* DeleteUserByNickname observed.
ScopeDeleteUser ==
    [nicknames |-> {"alice"}, hashes |-> {"h1"}, aliases |-> Aliases,
     urls |-> {"http://a"}, faulty |-> TRUE, observe |-> {"DeleteUserByNickname"}]

NextDeleteUser == Step(ScopeDeleteUser)

SpecDeleteUser == Init /\ [][NextDeleteUser]_vars

\* Failing backends: one user, two aliases; the calls of DeleteURL observed.
ScopeDeleteURL ==
    [nicknames |-> {"alice"}, hashes |-> {"h1"}, aliases |-> Aliases,
     urls |-> {"http://a"}, faulty |-> TRUE, observe |-> {"DeleteURL"}]

NextDeleteURL == Step(ScopeDeleteURL)

SpecDeleteURL == Init /\ [][NextDeleteURL]_vars

\* Failing backends, one user, one alias; the three URL calls observed.
ScopeURLs ==
    [nicknames |-> {"alice"}, hashes |-> {"h1"}, aliases |-> {"x"},
     urls |-> {"http://a"}, faulty |-> TRUE,
     observe |-> {"SaveURL", "GetURL", "DeleteURL"}]

NextURLs == Step(ScopeURLs)

SpecURLs == Init /\ [][NextURLs]_vars

\* ------------------------------------------------------------------ cancelled contexts
\* A coordinator call made with a ctx that is cancelled already.  The mongodb
\* adapter hands ctx to the driver, whose first call with it returns
\* context.Canceled.  The sqlite adapter's methods take no ctx and use Prepare,
\* Exec, QueryRow and Begin, not their Context forms: its statements execute.

\* The fault inputs <<sf, mf>> of such a call, firstCtx the number of the first
\* statement of the document call that is given ctx.
Cancelled(firstCtx) == <<0, firstCtx>>

CancelledOperations ==
    {"SaveURL(cancelled)", "DeleteURL(cancelled)", "SaveUser(cancelled)",
     "DeleteUserByNickname(cancelled)"}

SaveURL_Cancelled(c) ==
    \E urlToSave \in c.urls, alias \in c.aliases, userID \in UserIDs :
        LET f == Cancelled(1) IN
        \E r \in DualStorage_SaveURL(DB, urlToSave, alias, userID, f[1], f[2]) :
            /\ Becomes(r.db)
            /\ last' = Call(c, "SaveURL(cancelled)", "", alias, userID, urlToSave, "",
                            0, "", "", r)

DeleteURL_Cancelled(c) ==
    \E alias \in c.aliases, userID \in UserIDs :
        LET f == Cancelled(1) IN
        \E r \in DualStorage_DeleteURL(DB, alias, userID, f[1], f[2]) :
            /\ Becomes(r.db)
            /\ last' = Call(c, "DeleteURL(cancelled)", "", alias, userID, "", "",
                            0, "", "", r)

SaveUser_Cancelled(c) ==
    \E nickname \in c.nicknames, passwordHash \in c.hashes, ts \in Timestamps :
        LET f == Cancelled(1) IN
        /\ NextRowID(sqliteUsers) <= MaxUserID
        /\ \E r \in DualStorage_SaveUser(DB, nickname, passwordHash, ts, f[1], f[2]) :
            /\ Becomes(r.db)
            /\ last' = Call(c, "SaveUser(cancelled)", nickname, "", 0, "", passwordHash,
                            0, "", "", r)

\* StartSession takes no ctx; FindOne inside WithSession is the first that does.
DeleteUserByNickname_Cancelled(c) ==
    \E nickname \in c.nicknames :
        LET f == Cancelled(2) IN
        \E r \in DualStorage_DeleteUserByNickname(DB, nickname, f[1], f[2]) :
            /\ Becomes(r.db)
            /\ last' = Call(c, "DeleteUserByNickname(cancelled)", nickname, "", 0, "", "",
                            0, "", "", r)

\* Healthy backends, one user and one alias; the calls made with a cancelled
\* ctx observed.
ScopeCancelled ==
    [nicknames |-> {"alice"}, hashes |-> {"h1"}, aliases |-> {"x"},
     urls |-> {"http://a"}, faulty |-> FALSE, observe |-> CancelledOperations]

NextCancelled ==
    \/ Step(ScopeCancelled)
    \/ SaveURL_Cancelled(ScopeCancelled)
    \/ DeleteURL_Cancelled(ScopeCancelled)
    \/ SaveUser_Cancelled(ScopeCancelled)
    \/ DeleteUserByNickname_Cancelled(ScopeCancelled)

SpecCancelled == Init /\ [][NextCancelled]_vars

\* ------------------------------------------------------------------ adapters side by side
\* Each call is made on the relational adapter and, with the same arguments, on
\* the document adapter, whatever the relational adapter answered; no statement
\* fails in a driver.  `last` keeps both answers; its err is the relational one.

AdapterOperations ==
    {"sqlite+mongodb.SaveURL", "sqlite+mongodb.GetURL", "sqlite+mongodb.DeleteURL",
     "sqlite+mongodb.SaveUser", "sqlite+mongodb.GetUserByNickname",
     "sqlite+mongodb.DeleteUserByNickname"}

\* The answers of the two adapters, as Call takes them.
Answers(s, m) == [err |-> s.err, sqliteErr |-> s.err, mongoErr |-> m.err]

Adapters_SaveURL(c) ==
    \E urlToSave \in c.urls, alias \in c.aliases, userID \in UserIDs :
        LET s == sqlite_SaveURL(sqliteUsers, sqliteUrls, foreignKeys,
                                urlToSave, alias, userID, 0)
        IN
        \E m \in mongodb_SaveURL(mongoUrls, urlToSave, alias, userID, 0) :
            /\ Becomes([DB EXCEPT !.sqliteUrls = s.urls, !.mongoUrls = m.urls])
            /\ last' = Call(c, "sqlite+mongodb.SaveURL", "", alias, userID, urlToSave,
                            "", 0, "", "", Answers(s, m))

Adapters_GetURL(c) ==
    \E alias \in c.aliases, userID \in UserIDs :
        LET s == sqlite_GetURL(sqliteUrls, alias, userID, 0) IN
        \E m \in mongodb_GetURL(mongoUrls, alias, userID, 0) :
            /\ Becomes(DB)
            /\ last' = Call(c, "sqlite+mongodb.GetURL", "", alias, userID, "", "",
                            0, s.url, "", Answers(s, m))

Adapters_DeleteURL(c) ==
    \E alias \in c.aliases, userID \in UserIDs :
        LET s == sqlite_DeleteURL(sqliteUrls, alias, userID, 0) IN
        \E m \in mongodb_DeleteURL(mongoUrls, alias, userID, 0) :
            /\ Becomes([DB EXCEPT !.sqliteUrls = s.urls, !.mongoUrls = m.urls])
            /\ last' = Call(c, "sqlite+mongodb.DeleteURL", "", alias, userID, "", "",
                            0, "", "", Answers(s, m))

\* The document SaveUser is given the id the relational SaveUser returned.
Adapters_SaveUser(c) ==
    \E nickname \in c.nicknames, passwordHash \in c.hashes, ts \in Timestamps :
        LET s == sqlite_SaveUser(sqliteUsers, nickname, passwordHash, 0) IN
        /\ NextRowID(sqliteUsers) <= MaxUserID
        /\ \E m \in mongodb_SaveUser(mongoUsers, nickname, passwordHash, s.id, ts, 0) :
            /\ Becomes([DB EXCEPT !.sqliteUsers = s.users, !.mongoUsers = m.users])
            /\ last' = Call(c, "sqlite+mongodb.SaveUser", nickname, "", 0, "",
                            passwordHash, s.id, "", "", Answers(s, m))

Adapters_GetUserByNickname(c) ==
    \E nickname \in c.nicknames :
        LET s == sqlite_GetUserByNickname(sqliteUsers, nickname, 0) IN
        \E m \in mongodb_GetUserByNickname(mongoUsers, nickname, 0) :
            /\ Becomes(DB)
            /\ last' = Call(c, "sqlite+mongodb.GetUserByNickname", nickname, "", 0, "",
                            "", s.id, "", s.hash, Answers(s, m))

Adapters_DeleteUserByNickname(c) ==
    \E nickname \in c.nicknames :
        LET s == sqlite_DeleteUserByNickname(sqliteUsers, sqliteUrls, nickname, 0) IN
        \E m \in mongodb_DeleteUserByNickname(mongoUsers, mongoUrls, nickname, 0) :
            /\ Becomes([DB EXCEPT !.sqliteUsers = s.users, !.sqliteUrls = s.urls,
                                  !.mongoUsers = m.users, !.mongoUrls = m.urls])
            /\ last' = Call(c, "sqlite+mongodb.DeleteUserByNickname", nickname, "", 0,
                            "", "", 0, "", "", Answers(s, m))

\* Two users, two aliases, every call observed.
ScopeAdapters ==
    [nicknames |-> Nicknames, hashes |-> {"h1"}, aliases |-> Aliases,
     urls |-> {"http://a"}, faulty |-> FALSE, observe |-> AdapterOperations]

NextAdapters ==
    \/ Adapters_SaveURL(ScopeAdapters)
    \/ Adapters_GetURL(ScopeAdapters)
    \/ Adapters_DeleteURL(ScopeAdapters)
    \/ Adapters_SaveUser(ScopeAdapters)
    \/ Adapters_GetUserByNickname(ScopeAdapters)
    \/ Adapters_DeleteUserByNickname(ScopeAdapters)

SpecAdapters == Init /\ [][NextAdapters]_vars

\* ------------------------------------------------------------------ goroutines
\* SaveURL and DeleteURL run by goroutines that take turns between the
\* statements they send to the backends; a statement is atomic in its backend.
\* running[t].pc names the statement goroutine t sends next.

At(t, pc) == running[t].pc = pc

Goto(t, pc) == running' = [running EXCEPT ![t].pc = pc]

Return(t) == running' = [running EXCEPT ![t] = Idle]

\* DualStorage.SaveURL up to the return of sqliteDB.SaveURL: the INSERT.
SaveURL_Insert(t) ==
    \E urlToSave \in {"http://a"}, alias \in {"x"}, userID \in UserIDs :
        LET s == sqlite_SaveURL(sqliteUsers, sqliteUrls, foreignKeys,
                                urlToSave, alias, userID, 0)
        IN
        /\ At(t, "idle")
        /\ BagCardinality(mongoUrls) < MaxDocuments
        /\ sqliteUrls' = s.urls
        /\ running' = [running EXCEPT ![t] =
               IF s.err # ErrNil THEN Idle
               ELSE [pc |-> "mongodb.SaveURL.CountDocuments", alias |-> alias,
                     url |-> urlToSave, userID |-> userID]]
        /\ UNCHANGED <<sqliteUsers, mongoUsers, mongoUrls, foreignKeys, last>>

\* mongodb.SaveURL: CountDocuments and the test of count.
SaveURL_CountDocuments(t) ==
    /\ At(t, "mongodb.SaveURL.CountDocuments")
    /\ IF ByAlias(mongoUrls, running[t].alias) # {}
       THEN Return(t)
       ELSE Goto(t, "mongodb.SaveURL.InsertOne")
    /\ UNCHANGED <<sqliteUsers, sqliteUrls, mongoUsers, mongoUrls, foreignKeys, last>>

\* mongodb.SaveURL: InsertOne.
SaveURL_InsertOne(t) ==
    /\ At(t, "mongodb.SaveURL.InsertOne")
    /\ mongoUrls' = InsertOne(mongoUrls, [url |-> running[t].url,
                                          alias |-> running[t].alias,
                                          user_id |-> running[t].userID])
    /\ Return(t)
    /\ UNCHANGED <<sqliteUsers, sqliteUrls, mongoUsers, foreignKeys, last>>

\* sqlite.DeleteURL: SELECT user_id and the comparison with userID.
DeleteURL_Select(t) ==
    \E alias \in {"x"}, userID \in UserIDs :
        LET rows == {r \in sqliteUrls : r.alias = alias} IN
        /\ At(t, "idle")
        /\ running' = [running EXCEPT ![t] =
               IF rows = {} \/ (CHOOSE r \in rows : TRUE).user_id # userID THEN Idle
               ELSE [pc |-> "sqlite.DeleteURL.Exec", alias |-> alias,
                     url |-> "", userID |-> userID]]
        /\ UNCHANGED <<sqliteUsers, sqliteUrls, mongoUsers, mongoUrls, foreignKeys, last>>

\* sqlite.DeleteURL: DELETE FROM urls WHERE alias = ?.
DeleteURL_Exec(t) ==
    /\ At(t, "sqlite.DeleteURL.Exec")
    /\ sqliteUrls' = {r \in sqliteUrls : r.alias # running[t].alias}
    /\ Goto(t, "mongodb.DeleteURL.FindOne")
    /\ UNCHANGED <<sqliteUsers, mongoUsers, mongoUrls, foreignKeys, last>>

\* mongodb.DeleteURL: FindOne and the comparison with userID.
DeleteURL_FindOne(t) ==
    /\ At(t, "mongodb.DeleteURL.FindOne")
    /\ \/ /\ \A d \in ByAlias(mongoUrls, running[t].alias) :
                 d.user_id # running[t].userID
          /\ Return(t)
       \/ /\ \E d \in ByAlias(mongoUrls, running[t].alias) :
                 d.user_id = running[t].userID
          /\ Goto(t, "mongodb.DeleteURL.DeleteOne")
    /\ UNCHANGED <<sqliteUsers, sqliteUrls, mongoUsers, mongoUrls, foreignKeys, last>>

\* mongodb.DeleteURL: DeleteOne by alias.
DeleteURL_DeleteOne(t) ==
    /\ At(t, "mongodb.DeleteURL.DeleteOne")
    /\ mongoUrls' \in DeleteOne(mongoUrls, ByAlias(mongoUrls, running[t].alias))
    /\ Return(t)
    /\ UNCHANGED <<sqliteUsers, sqliteUrls, mongoUsers, foreignKeys, last>>

\* Healthy backends, one user to register, no call observed.
ScopeConcurrent ==
    [nicknames |-> {"alice"}, hashes |-> {"h1"}, aliases |-> {"x"},
     urls |-> {"http://a"}, faulty |-> FALSE, observe |-> {}]

NextConcurrent ==
    \/ SaveUser(ScopeConcurrent)
    \/ \E t \in Threads :
        \/ SaveURL_Insert(t)
        \/ SaveURL_CountDocuments(t)
        \/ SaveURL_InsertOne(t)
        \/ DeleteURL_Select(t)
        \/ DeleteURL_Exec(t)
        \/ DeleteURL_FindOne(t)
        \/ DeleteURL_DeleteOne(t)

SpecConcurrent == Init /\ [][NextConcurrent]_vars

\* A GetURL that takes turns with the goroutines above; its relational answer
\* is observed.
ScopeGetURL ==
    [nicknames |-> {"alice"}, hashes |-> {"h1"}, aliases |-> {"x"},
     urls |-> {"http://a"}, faulty |-> FALSE, observe |-> {"sqlite.GetURL"}]

\* What sqlite.GetURL returned to DualStorage.GetURL in goroutine t.
GetURL_Returned(t, alias, userID, url, err) ==
    last' = Call(ScopeGetURL, "sqlite.GetURL", "", alias, userID, "", "", 0, url, "",
                 [err |-> err, sqliteErr |-> err, mongoErr |-> NotCalled])

\* sqlite.GetURL: SELECT 1 FROM urls WHERE alias = ?.
GetURL_CheckExistence(t) ==
    \E alias \in {"x"}, userID \in UserIDs :
        /\ At(t, "idle")
        /\ IF \A r \in sqliteUrls : r.alias # alias
           THEN /\ GetURL_Returned(t, alias, userID, "", ErrURLNotFound)
                /\ running' = [running EXCEPT ![t] =
                       [pc |-> "mongodb.GetURL.FindOne", alias |-> alias,
                        url |-> "", userID |-> userID]]
           ELSE /\ running' = [running EXCEPT ![t] =
                       [pc |-> "sqlite.GetURL.CheckOwnership", alias |-> alias,
                        url |-> "", userID |-> userID]]
                /\ UNCHANGED last
        /\ UNCHANGED <<sqliteUsers, sqliteUrls, mongoUsers, mongoUrls, foreignKeys>>

\* sqlite.GetURL: SELECT user_id FROM urls WHERE alias = ? and the comparison
\* with userID; Scan gives sql.ErrNoRows when no row has the alias now.
GetURL_CheckOwnership(t) ==
    LET op == "storage.sqlite.GetURL"
        alias == running[t].alias
        userID == running[t].userID
        rows == {r \in sqliteUrls : r.alias = alias}
    IN
    /\ At(t, "sqlite.GetURL.CheckOwnership")
    /\ IF rows = {}
       THEN /\ GetURL_Returned(t, alias, userID, "", Errorf_w(op, ErrNoRows))
            /\ Goto(t, "mongodb.GetURL.FindOne")
       ELSE IF (CHOOSE r \in rows : TRUE).user_id # userID
       THEN /\ GetURL_Returned(t, alias, userID, "", ErrUnauthorized)
            /\ Goto(t, "mongodb.GetURL.FindOne")
       ELSE /\ Goto(t, "sqlite.GetURL.GetURL")
            /\ UNCHANGED last
    /\ UNCHANGED <<sqliteUsers, sqliteUrls, mongoUsers, mongoUrls, foreignKeys>>

\* sqlite.GetURL: SELECT url FROM urls WHERE alias = ? AND user_id = ?; with
\* the url DualStorage.GetURL returns, with an error it goes on to mongoDB.
GetURL_GetURL(t) ==
    LET op == "storage.sqlite.GetURL"
        alias == running[t].alias
        userID == running[t].userID
        rows == {r \in sqliteUrls : r.alias = alias /\ r.user_id = userID}
    IN
    /\ At(t, "sqlite.GetURL.GetURL")
    /\ IF rows = {}
       THEN /\ GetURL_Returned(t, alias, userID, "", Errorf_w(op, ErrNoRows))
            /\ Goto(t, "mongodb.GetURL.FindOne")
       ELSE /\ GetURL_Returned(t, alias, userID, (CHOOSE r \in rows : TRUE).url, ErrNil)
            /\ Return(t)
    /\ UNCHANGED <<sqliteUsers, sqliteUrls, mongoUsers, mongoUrls, foreignKeys>>

\* mongodb.GetURL after a relational error: FindOne, which changes nothing.
GetURL_FindOne(t) ==
    /\ At(t, "mongodb.GetURL.FindOne")
    /\ Return(t)
    /\ UNCHANGED <<sqliteUsers, sqliteUrls, mongoUsers, mongoUrls, foreignKeys, last>>

NextGetURL ==
    \/ NextConcurrent
    \/ \E t \in Threads :
        \/ GetURL_CheckExistence(t)
        \/ GetURL_CheckOwnership(t)
        \/ GetURL_GetURL(t)
        \/ GetURL_FindOne(t)

SpecGetURL == Init /\ [][NextGetURL]_vars

\* ------------------------------------------------------------------ handlers
\* The HTTP handlers over DualStorage.  A handler answers a request with one
\* response and makes its coordinator calls in order; an exchange is
\* [db, calls, response]: the stores after the request, the coordinator calls
\* made, and what was rendered.  The text of an error response is left out.

Passwords == {"p1", "p2"}

\* bcrypt: a password has its hash, and only that hash verifies it.
HashPassword(password) == IF password = "p1" THEN "h1" ELSE "h2"

\* bcrypt.CompareHashAndPassword rejects a hash too short to be one.
CheckPasswordHash(password, hash) ==
    hash # "" /\ hash = HashPassword(password)

\* The token GenerateJWT signs for username.
GenerateJWT(username) == <<"jwt", username>>

NoToken == <<>>

\* auth.Login: the token, or none with an error for a wrong password.
Login(username, password, hash) ==
    IF ~CheckPasswordHash(password, hash)
    THEN [token |-> NoToken, err |-> ErrorsNew("invalid password")]
    ELSE [token |-> GenerateJWT(username), err |-> ErrNil]

\* render.JSON(w, r, resp.Error(...)).
RespError == [status |-> "Error", alias |-> "", location |-> "", token |-> NoToken]

\* render.JSON(w, r, resp.OK()).
RespOK == [status |-> "OK", alias |-> "", location |-> "", token |-> NoToken]

\* save.responseOK: resp.OK() with the alias.
responseOK(alias) == [RespOK EXCEPT !.alias = alias]

\* http.Redirect(w, r, resURL, http.StatusFound).
Redirect(resURL) ==
    [status |-> "Found", alias |-> "", location |-> resURL, token |-> NoToken]

\* login.LoginResponse{Status: "success", Token: token}.
LoginResponse(token) ==
    [status |-> "success", alias |-> "", location |-> "", token |-> token]

\* One coordinator call a handler made: its arguments and what it returned.
Called(op, nickname, alias, userID, r) ==
    [op |-> op, nickname |-> nickname, alias |-> alias, userID |-> userID,
     retUserID |-> IF op = "GetUserByNickname" THEN r.userID ELSE 0,
     retHash |-> IF op = "GetUserByNickname" THEN r.hash ELSE "",
     err |-> r.err]

\* redirect.New.  gf and uf are the fault inputs of its two calls.
redirect_New(db, nickname, alias, gf, uf) ==
    IF nickname = "" \/ alias = ""
    THEN {[db |-> db, calls |-> <<>>, response |-> RespError]}
    ELSE UNION {
        LET getUser == Called("GetUserByNickname", nickname, "", 0, g) IN
        IF g.err # ErrNil
        THEN {[db |-> g.db, calls |-> <<getUser>>, response |-> RespError]}
        ELSE {[db |-> u.db,
               calls |-> <<getUser, Called("GetURL", "", alias, g.userID, u)>>,
               response |-> IF u.err # ErrNil THEN RespError ELSE Redirect(u.url)]
              : u \in DualStorage_GetURL(g.db, alias, g.userID, uf[1], uf[2])}
        : g \in DualStorage_GetUserByNickname(db, nickname, gf[1], gf[2])}

\* delete.New of handlers/url.
delete_New(db, nickname, alias, gf, uf) ==
    IF nickname = "" \/ alias = ""
    THEN {[db |-> db, calls |-> <<>>, response |-> RespError]}
    ELSE UNION {
        LET getUser == Called("GetUserByNickname", nickname, "", 0, g) IN
        IF g.err # ErrNil
        THEN {[db |-> g.db, calls |-> <<getUser>>, response |-> RespError]}
        ELSE {[db |-> u.db,
               calls |-> <<getUser, Called("DeleteURL", "", alias, g.userID, u)>>,
               response |-> IF u.err # ErrNil THEN RespError ELSE RespOK]
              : u \in DualStorage_DeleteURL(g.db, alias, g.userID, uf[1], uf[2])}
        : g \in DualStorage_GetUserByNickname(db, nickname, gf[1], gf[2])}

\* save.New as it would be if it stopped only when GetUserByNickname gave no
\* userID.  C25 has to tell it from save_New.
save_New_TrustsUserID(db, nickname, url, alias, gf, uf) ==
    LET err == ErrNil IN
    IF nickname = "" \/ alias = ""
    THEN {[db |-> db, calls |-> <<>>, response |-> RespError]}
    ELSE UNION {
        LET getUser == Called("GetUserByNickname", nickname, "", 0, g) IN
        IF g.userID = 0
        THEN {[db |-> g.db, calls |-> <<getUser>>, response |-> RespError]}
        ELSE {[db |-> u.db,
               calls |-> <<getUser, Called("SaveURL", "", alias, g.userID, u)>>,
               response |-> IF u.err.is = "ErrURLExists" THEN RespError
                            ELSE IF err # ErrNil THEN RespError
                            ELSE responseOK(alias)]
              : u \in DualStorage_SaveURL(g.db, url, alias, g.userID, uf[1], uf[2])}
        : g \in DualStorage_GetUserByNickname(db, nickname, gf[1], gf[2])}

\* save.New for a request that decodes and validates; alias is the request's
\* or the random one.  err is the variable DecodeJSON assigned, nil from then
\* on: the second test reads it, not errSaveURL.
save_New(db, nickname, url, alias, gf, uf) ==
    LET err == ErrNil IN
    IF nickname = "" \/ alias = ""
    THEN {[db |-> db, calls |-> <<>>, response |-> RespError]}
    ELSE UNION {
        LET getUser == Called("GetUserByNickname", nickname, "", 0, g) IN
        IF g.err # ErrNil
        THEN {[db |-> g.db, calls |-> <<getUser>>, response |-> RespError]}
        ELSE {[db |-> u.db,
               calls |-> <<getUser, Called("SaveURL", "", alias, g.userID, u)>>,
               response |-> IF u.err.is = "ErrURLExists" THEN RespError
                            ELSE IF err # ErrNil THEN RespError
                            ELSE responseOK(alias)]
              : u \in DualStorage_SaveURL(g.db, url, alias, g.userID, uf[1], uf[2])}
        : g \in DualStorage_GetUserByNickname(db, nickname, gf[1], gf[2])}

\* login.New as it would be if it went by the userID and not by the error.
\* C26 has to tell it from login_New.
login_New_ByUserID(db, nickname, password, gf) ==
    {LET getUser == Called("GetUserByNickname", nickname, "", 0, g) IN
     [db |-> g.db, calls |-> <<getUser>>,
      response |-> IF g.userID = 0 THEN RespError
                   ELSE LoginResponse(GenerateJWT(nickname))]
     : g \in DualStorage_GetUserByNickname(db, nickname, gf[1], gf[2])}

\* login.New for a request that decodes and validates.
login_New(db, nickname, password, gf) ==
    {LET getUser == Called("GetUserByNickname", nickname, "", 0, g)
         l == Login(nickname, password, g.hash)
     IN
     [db |-> g.db, calls |-> <<getUser>>,
      response |-> IF g.err # ErrNil THEN RespError
                   ELSE IF l.err # ErrNil THEN RespError
                   ELSE LoginResponse(l.token)]
     : g \in DualStorage_GetUserByNickname(db, nickname, gf[1], gf[2])}

\* register.New for a request that decodes and validates.
register_New(db, nickname, password, ts, uf) ==
    LET hashedPassword == HashPassword(password) IN
    {[db |-> u.db,
      calls |-> <<Called("SaveUser", nickname, "", 0, u)>>,
      response |-> IF u.err.is = "ErrUserExists" THEN RespError ELSE RespOK]
     : u \in DualStorage_SaveUser(db, nickname, hashedPassword, ts, uf[1], uf[2])}

\* delete.New of handlers/user as it would be without the comparison of the
\* path's nickname with the token's.  C31 has to tell it from deleteUser_New.
deleteUser_New_AnyNickname(db, nickname, authNickname, ok, uf) ==
    IF ~ok
    THEN {[db |-> db, calls |-> <<>>, response |-> RespError]}
    ELSE IF nickname = ""
    THEN {[db |-> db, calls |-> <<>>, response |-> RespError]}
    ELSE {[db |-> u.db,
           calls |-> <<Called("DeleteUserByNickname", nickname, "", 0, u)>>,
           response |-> IF u.err # ErrNil THEN RespError ELSE RespOK]
          : u \in DualStorage_DeleteUserByNickname(db, nickname, uf[1], uf[2])}

\* delete.New of handlers/user.  nickname is the path's, authNickname the one
\* the token middleware put in the request context, ok whether it is there.
deleteUser_New(db, nickname, authNickname, ok, uf) ==
    IF ~ok
    THEN {[db |-> db, calls |-> <<>>, response |-> RespError]}
    ELSE IF nickname # authNickname
    THEN {[db |-> db, calls |-> <<>>, response |-> RespError]}
    ELSE IF nickname = ""
    THEN {[db |-> db, calls |-> <<>>, response |-> RespError]}
    ELSE {[db |-> u.db,
           calls |-> <<Called("DeleteUserByNickname", nickname, "", 0, u)>>,
           response |-> IF u.err # ErrNil THEN RespError ELSE RespOK]
          : u \in DualStorage_DeleteUserByNickname(db, nickname, uf[1], uf[2])}

\* What `last` keeps of a request and its exchange x.
Handled(handler, nickname, alias, url, password, x) ==
    [op |-> handler, nickname |-> nickname, alias |-> alias, url |-> url,
     password |-> password, calls |-> x.calls, response |-> x.response]

Redirect_Request(c) ==
    \E nickname \in c.nicknames, alias \in c.aliases \cup {""},
       gf \in Faults(c, 2, 1, FALSE), uf \in Faults(c, 3, 1, FALSE) :
        \E x \in redirect_New(DB, nickname, alias, gf, uf) :
            /\ Becomes(x.db)
            /\ last' = Handled("redirect.New", nickname, alias, "", "", x)

DeleteURL_Request(c) ==
    \E nickname \in c.nicknames, alias \in c.aliases \cup {""},
       gf \in Faults(c, 2, 1, FALSE), uf \in Faults(c, 2, 2, TRUE) :
        \E x \in delete_New(DB, nickname, alias, gf, uf) :
            /\ Becomes(x.db)
            /\ last' = Handled("delete.New", nickname, alias, "", "", x)

Save_Request(c) ==
    \E nickname \in c.nicknames, url \in c.urls, alias \in c.aliases,
       gf \in Faults(c, 2, 1, FALSE), uf \in Faults(c, 2, 2, TRUE) :
        \E x \in save_New(DB, nickname, url, alias, gf, uf) :
            /\ Becomes(x.db)
            /\ last' = Handled("save.New", nickname, alias, url, "", x)

Login_Request(c) ==
    \E nickname \in c.nicknames, password \in Passwords,
       gf \in Faults(c, 2, 1, FALSE) :
        \E x \in login_New(DB, nickname, password, gf) :
            /\ Becomes(x.db)
            /\ last' = Handled("login.New", nickname, "", "", password, x)

Register_Request(c) ==
    \E nickname \in c.nicknames, password \in Passwords, ts \in Timestamps,
       uf \in Faults(c, 2, 2, TRUE) :
        /\ NextRowID(sqliteUsers) <= MaxUserID
        /\ \E x \in register_New(DB, nickname, password, ts, uf) :
            /\ Becomes(x.db)
            /\ last' = Handled("register.New", nickname, "", "", password, x)

\* The route is behind TokenAuthMiddleware, which always puts a nickname in
\* the context; it does not refuse a token whose username is empty.
DeleteUser_Request(c) ==
    \E nickname \in c.nicknames \cup {""}, authNickname \in c.nicknames \cup {""},
       ok \in {TRUE}, uf \in Faults(c, 6, 4, TRUE) :
        \E x \in deleteUser_New(DB, nickname, authNickname, ok, uf) :
            /\ Becomes(x.db)
            /\ last' = Handled("deleteUser.New", nickname, "", "", "", x)
                       @@ [authNickname |-> authNickname]

\* Failing backends, two users, one alias.
ScopeHandlers ==
    [nicknames |-> Nicknames, hashes |-> Hashes, aliases |-> {"x"},
     urls |-> {"http://a"}, faulty |-> TRUE, observe |-> {}]

NextHandlers ==
    \/ Redirect_Request(ScopeHandlers)
    \/ DeleteURL_Request(ScopeHandlers)
    \/ Save_Request(ScopeHandlers)
    \/ Login_Request(ScopeHandlers)
    \/ Register_Request(ScopeHandlers)

SpecHandlers == Init /\ [][NextHandlers]_vars

\* Accounts made, given URLs and deleted: healthy backends, two users, two
\* aliases.
ScopeAccounts ==
    [nicknames |-> Nicknames, hashes |-> Hashes, aliases |-> Aliases,
     urls |-> {"http://a"}, faulty |-> FALSE, observe |-> {}]

NextAccounts ==
    \/ Register_Request(ScopeAccounts)
    \/ Save_Request(ScopeAccounts)
    \/ DeleteUser_Request(ScopeAccounts)

SpecAccounts == Init /\ [][NextAccounts]_vars

\* ------------------------------------------------------------------ claims

\* The calls of an operation that `last` shows.
Did(op) == last.op = op

\* err is a failure of the driver, not an answer of the store.
IsDriverError(err) ==
    /\ err.text # <<>>
    /\ err.text[Len(err.text)] \in {"sqlite driver error", "mongo driver error"}

\* The row id of nickname in the relational backend, 0 when it has none.
SqliteID(users, nickname) ==
    IF \E u \in users : u.nickname = nickname
    THEN (CHOOSE u \in users : u.nickname = nickname).id
    ELSE 0

\* The documents a step takes out of a collection.
Removed(before, after) ==
    {d \in BagToSet(before) : CopiesIn(d, after) < CopiesIn(d, before)}

\* C1: in every reachable state, a nickname present in both backends has the
\* same userID in both: the document's user_id is the relational row id.
C1_UserIDsAgree ==
    \A u \in sqliteUsers : \A d \in BagToSet(mongoUsers) :
        d.nickname = u.nickname => d.user_id = u.id

\* The owners an alias is stored with, in either backend.
OwnersOf(alias) ==
    {r.user_id : r \in {x \in sqliteUrls : x.alias = alias}}
    \cup {d.user_id : d \in ByAlias(mongoUrls, alias)}

\* Every statement the call reached was executed: neither adapter answered with
\* a failure of its driver.
HealthyCall(call) ==
    ~IsDriverError(call.sqliteErr) /\ ~IsDriverError(call.mongoErr)

\* C2 as stated: GetURL(alias, u) for an alias stored with an owner other than u
\* fails with Unauthorized and returns no URL, in every reachable state.
C2_Original ==
    (/\ Did("GetURL")
     /\ HealthyCall(last)
     /\ \E o \in OwnersOf(last.alias) : o # last.userID)
    => (Kind(last.err) = "Unauthorized" /\ last.retURL = "")

\* C2: GetURL(alias, u) for an alias that is stored, and by no backend with
\* owner u, returns no URL and an error; when the calls execute, the error is
\* Unauthorized if the document backend holds the alias and NotFound if only the
\* relational backend does.
C2_Amended ==
    (/\ Did("GetURL")
     /\ OwnersOf(last.alias) # {}
     /\ last.userID \notin OwnersOf(last.alias))
    => /\ last.retURL = ""
       /\ last.err # ErrNil
       /\ HealthyCall(last) =>
            Kind(last.err) = IF ByAlias(mongoUrls, last.alias) # {}
                             THEN "Unauthorized" ELSE "NotFound"

\* A refused GetURL in a state where the backends have diverged.
C2_Witness ==
    /\ Did("GetURL")
    /\ OwnersOf(last.alias) # {}
    /\ last.userID \notin OwnersOf(last.alias)
    /\ sqliteUrls # BagToSet(mongoUrls)
    /\ Kind(last.err) = "Unauthorized"
    /\ last.retURL = ""

\* C3: a successful DeleteUserByNickname(n) leaves no record that had the
\* userID of n in either backend, and GetURL on each of their aliases then
\* answers NotFound.
C3_DeleteCascades ==
    [][(last'.op = "DeleteUserByNickname" /\ last'.err = ErrNil) =>
        LET id == SqliteID(sqliteUsers, last'.nickname)
            owned == {r.alias : r \in {x \in sqliteUrls : x.user_id = id}}
                     \cup {d.alias : d \in {x \in BagToSet(mongoUrls) : x.user_id = id}}
        IN
        /\ \A r \in sqliteUrls' : r.user_id # id
        /\ \A d \in BagToSet(mongoUrls') : d.user_id # id
        /\ \A alias \in owned : \A r \in DualStorage_GetURL(DB', alias, id, 0, 0) :
               Kind(r.err) = "NotFound"
      ]_vars

\* C4: after a successful DeleteUserByNickname(n) the user n is in neither
\* backend.
C4_UserGoneFromBoth ==
    (Did("DeleteUserByNickname") /\ last.err = ErrNil) =>
        /\ \A u \in sqliteUsers : u.nickname # last.nickname
        /\ \A d \in BagToSet(mongoUsers) : d.nickname # last.nickname

\* C5: a call made for a user takes no record of another owner out of either
\* backend: DeleteURL(alias, u) only records owned by u, DeleteUserByNickname(n)
\* only records owned by the userID of n, any other operation none.
C5_OnlyOwnRecordsRemoved ==
    [][LET gone == (sqliteUrls \ sqliteUrls') \cup Removed(mongoUrls, mongoUrls') IN
       CASE last'.op = "DeleteURL" ->
                \A r \in gone : r.user_id = last'.userID /\ r.alias = last'.alias
         [] last'.op = "DeleteUserByNickname" ->
                \A r \in gone : r.user_id = SqliteID(sqliteUsers, last'.nickname)
         [] OTHER -> gone = {}
      ]_vars

\* userID is the id of a row of the relational users table.
Registered(userID) == \E u \in sqliteUsers : u.id = userID

\* No backend holds the alias.
Unused(alias) ==
    /\ \A r \in sqliteUrls : r.alias # alias
    /\ ByAlias(mongoUrls, alias) = {}

\* C6: with the calls executing, SaveURL(url, alias, owner) for a registered
\* owner and an unused alias succeeds, and GetURL(alias, owner) right after a
\* successful SaveURL(url, alias, owner) returns url and no error.
C6_SaveThenGet ==
    [][/\ (/\ last'.op = "SaveURL"
           /\ HealthyCall(last')
           /\ Unused(last'.alias)
           /\ Registered(last'.userID))
          => /\ last'.err = ErrNil
             /\ [alias |-> last'.alias, url |-> last'.url, user_id |-> last'.userID]
                    \in sqliteUrls' \cap BagToSet(mongoUrls')
       /\ (/\ last.op = "SaveURL"
           /\ last.err = ErrNil
           /\ last'.op = "GetURL"
           /\ last'.alias = last.alias
           /\ last'.userID = last.userID
           /\ HealthyCall(last'))
          => (last'.retURL = last.url /\ last'.err = ErrNil)
      ]_vars

\* A GetURL that returned the URL a registered owner has in both backends.
C6_Witness ==
    /\ Did("GetURL")
    /\ last.err = ErrNil
    /\ last.retURL = "http://b"
    /\ Registered(last.userID)
    /\ [alias |-> last.alias, url |-> "http://b", user_id |-> last.userID]
           \in sqliteUrls \cap BagToSet(mongoUrls)

\* C7: SaveURL with an alias the relational backend already holds returns an
\* error, AlreadyExists when the relational statement executes, without calling
\* the document adapter and without changing a record of either backend.
C7_ExistingAliasRefused ==
    [][(last'.op = "SaveURL" /\ \E r \in sqliteUrls : r.alias = last'.alias)
       => /\ last'.mongoErr = NotCalled
          /\ mongoUrls' = mongoUrls
          /\ sqliteUrls' = sqliteUrls
          /\ last'.err # ErrNil
          /\ ~IsDriverError(last'.sqliteErr) => Kind(last'.err) = "AlreadyExists"
      ]_vars

\* A SaveURL refused for an alias that is kept with another target URL.
C7_Witness ==
    /\ Did("SaveURL")
    /\ Kind(last.err) = "AlreadyExists"
    /\ last.mongoErr = NotCalled
    /\ \E r \in sqliteUrls : r.alias = last.alias /\ r.url # last.url

\* C8: when the relational read fails and the document read succeeds,
\* GetUserByNickname(n) returns an error, an empty password hash and the user_id
\* field of the document of n.
C8_DocumentUserID ==
    (/\ Did("GetUserByNickname")
     /\ last.sqliteErr # ErrNil
     /\ last.mongoErr = ErrNil)
    => /\ last.err # ErrNil
       /\ last.retHash = ""
       /\ \E d \in ByNickname(mongoUsers, last.nickname) : last.retUserID = d.user_id

\* text holds the parts a and then the parts b.
NamesBoth(text, a, b) ==
    \E i \in 1..Len(text), j \in 1..Len(text) :
        /\ i + Len(a) <= j
        /\ j + Len(b) - 1 <= Len(text)
        /\ SubSeq(text, i, i + Len(a) - 1) = a
        /\ SubSeq(text, j, j + Len(b) - 1) = b

\* C9: when both reads fail, GetUserByNickname returns (0, "", err) with err of
\* no domain kind and a text that names both causes.
C9_BothFail ==
    (/\ Did("GetUserByNickname")
     /\ last.sqliteErr # ErrNil
     /\ last.mongoErr # ErrNil)
    => /\ last.retUserID = 0
       /\ last.retHash = ""
       /\ Kind(last.err) = "Operational"
       /\ NamesBoth(last.err.text, last.sqliteErr.text, last.mongoErr.text)

\* Both reads answered NotFound.
C9_Witness ==
    /\ Did("GetUserByNickname")
    /\ Kind(last.sqliteErr) = "NotFound"
    /\ Kind(last.mongoErr) = "NotFound"
    /\ Kind(last.err) = "Operational"

\* C10: GetUserByNickname calls both adapters; when the relational read
\* succeeds it returns the relational row's id and password hash, and its error
\* is nil exactly when the document read succeeded too.
C10_RelationalPair ==
    Did("GetUserByNickname") =>
        /\ last.sqliteErr # NotCalled
        /\ last.mongoErr # NotCalled
        /\ last.sqliteErr = ErrNil =>
            /\ \E u \in sqliteUsers :
                   /\ u.nickname = last.nickname
                   /\ last.retUserID = u.id
                   /\ last.retHash = u.password_hash
            /\ (last.err = ErrNil <=> last.mongoErr = ErrNil)

\* Both reads succeeded and the document keeps another password hash.
C10_Witness ==
    /\ Did("GetUserByNickname")
    /\ last.sqliteErr = ErrNil
    /\ last.mongoErr = ErrNil
    /\ \E d \in ByNickname(mongoUsers, last.nickname) : d.password_hash # last.retHash

\* The relational rows of the URLs a nickname owns.
OwnedRows(users, urls, nickname) ==
    {r \in urls : r.user_id = SqliteID(users, nickname)}

\* C11: DeleteUserByNickname(n) for a registered n that owns no URL returns an
\* error, does not call the document adapter and changes neither backend: n
\* stays where it was.
C11_NoURLsNoDelete ==
    [][(/\ last'.op = "DeleteUserByNickname"
        /\ SqliteID(sqliteUsers, last'.nickname) # 0
        /\ OwnedRows(sqliteUsers, sqliteUrls, last'.nickname) = {})
       => /\ last'.err # ErrNil
          /\ last'.mongoErr = NotCalled
          /\ SqliteID(sqliteUsers', last'.nickname) = SqliteID(sqliteUsers, last'.nickname)
          /\ ByNickname(mongoUsers', last'.nickname) = ByNickname(mongoUsers, last'.nickname)
          /\ UNCHANGED <<sqliteUsers, sqliteUrls, mongoUsers, mongoUrls>>
      ]_vars

\* A delete refused by the count of URLs, for a user both backends hold.
C11_Witness ==
    /\ Did("DeleteUserByNickname")
    /\ last.err = ErrorsNew("storage.sqlite.DeleteUserByNickname: no URLs found for user")
    /\ last.mongoErr = NotCalled
    /\ SqliteID(sqliteUsers, last.nickname) # 0
    /\ ByNickname(mongoUsers, last.nickname) # {}

\* C12: GetURL for an alias no backend holds returns no URL and an error,
\* which is NotFound whenever the document read executes.
C12_AbsentAliasNotFound ==
    (Did("GetURL") /\ Unused(last.alias))
    => /\ last.retURL = ""
       /\ last.mongoErr # NotCalled
       /\ last.err = last.mongoErr
       /\ ~IsDriverError(last.mongoErr) => Kind(last.err) = "NotFound"

\* Both reads executed and found nothing.
C12_Witness ==
    /\ Did("GetURL")
    /\ Unused(last.alias)
    /\ last.sqliteErr = ErrURLNotFound
    /\ last.mongoErr = ErrURLNotFound
    /\ Kind(last.err) = "NotFound"

\* The documents a step puts into a collection.
Added(before, after) == Removed(after, before)

\* C13: a step that changes the document backend has had its relational call
\* succeed and has changed the same records there: a URL document it inserts is
\* a relational row after the step, a URL document it removes has no relational
\* row of its alias and owner after the step, and likewise for users by nickname.
C13_RelationalFirst ==
    [][(mongoUrls' # mongoUrls \/ mongoUsers' # mongoUsers)
       => /\ last'.sqliteErr = ErrNil
          /\ \A d \in Added(mongoUrls, mongoUrls') : d \in sqliteUrls' \ sqliteUrls
          /\ \A d \in Removed(mongoUrls, mongoUrls') :
                 /\ \E r \in sqliteUrls \ sqliteUrls' :
                        r.alias = d.alias /\ r.user_id = d.user_id
                 /\ \A r \in sqliteUrls' :
                        ~(r.alias = d.alias /\ r.user_id = d.user_id)
          /\ \A d \in Added(mongoUsers, mongoUsers') :
                 \E u \in sqliteUsers' \ sqliteUsers :
                     u.nickname = d.nickname /\ u.id = d.user_id
          /\ \A d \in Removed(mongoUsers, mongoUsers') :
                 \A u \in sqliteUsers' : u.nickname # d.nickname
      ]_vars

\* The record a SaveURL call is to write.
SavedRecord(call) ==
    [alias |-> call.alias, url |-> call.url, user_id |-> call.userID]

\* C14: SaveURL returns nil exactly when it wrote the record to both backends;
\* when the relational write succeeds and the document write fails it returns
\* the document adapter's error, the relational row stays and the document
\* backend is as it was.
C14_SaveURLBothOrError ==
    [][last'.op = "SaveURL"
       => /\ last'.err = ErrNil
              <=> /\ SavedRecord(last') \in sqliteUrls' \ sqliteUrls
                  /\ SavedRecord(last') \in Added(mongoUrls, mongoUrls')
          /\ (last'.sqliteErr = ErrNil /\ last'.mongoErr # ErrNil)
              => /\ last'.err = last'.mongoErr
                 /\ sqliteUrls' = sqliteUrls \cup {SavedRecord(last')}
                 /\ SavedRecord(last') \notin sqliteUrls
                 /\ mongoUrls' = mongoUrls
      ]_vars

\* A SaveURL whose document write failed in the driver: the record is a
\* relational row and no document.
C14_Witness ==
    /\ Did("SaveURL")
    /\ last.sqliteErr = ErrNil
    /\ IsDriverError(last.mongoErr)
    /\ last.err = last.mongoErr
    /\ SavedRecord(last) \in sqliteUrls
    /\ ByAlias(mongoUrls, last.alias) = {}

\* What C15 says of a relational failure: the document adapter is not called,
\* no store changes, the relational error is returned.
RelationalDeleteFailed ==
    last'.sqliteErr # ErrNil
    => /\ last'.mongoErr = NotCalled
       /\ last'.err = last'.sqliteErr
       /\ UNCHANGED <<sqliteUsers, sqliteUrls, mongoUsers, mongoUrls>>

\* C15 as stated: DeleteURL after a relational failure calls no document
\* delete and changes nothing; after a relational success and a document
\* failure it returns the document error, the alias is gone from the relational
\* backend and still present in the document backend.
C15_Original ==
    [][last'.op = "DeleteURL"
       => /\ RelationalDeleteFailed
          /\ (last'.sqliteErr = ErrNil /\ last'.mongoErr # ErrNil)
              => /\ last'.err = last'.mongoErr
                 /\ \A r \in sqliteUrls' : r.alias # last'.alias
                 /\ ByAlias(mongoUrls', last'.alias) # {}
      ]_vars

\* C15: DeleteURL after a relational failure calls no document delete and
\* changes nothing; after a relational success and a document failure it
\* returns the document error, the alias is gone from the relational backend and
\* the document backend is unchanged: it still holds the alias unless it did
\* not hold it before, and then the error is NotFound or a driver failure.
C15_Amended ==
    [][last'.op = "DeleteURL"
       => /\ RelationalDeleteFailed
          /\ (last'.sqliteErr = ErrNil /\ last'.mongoErr # ErrNil)
              => /\ last'.err = last'.mongoErr
                 /\ \A r \in sqliteUrls' : r.alias # last'.alias
                 /\ sqliteUrls' # sqliteUrls
                 /\ mongoUrls' = mongoUrls
                 /\ Kind(last'.err) = "NotFound" => ByAlias(mongoUrls', last'.alias) = {}
                 /\ ByAlias(mongoUrls', last'.alias) = {}
                        => (Kind(last'.err) = "NotFound" \/ IsDriverError(last'.err))
      ]_vars

\* A DeleteURL that removed the relational row and got NotFound from the
\* document backend, which never held the alias.
C15_Witness ==
    /\ Did("DeleteURL")
    /\ last.sqliteErr = ErrNil
    /\ Kind(last.mongoErr) = "NotFound"
    /\ last.err = last.mongoErr
    /\ Unused(last.alias)

\* C16: GetURL whose relational read succeeds returns the relational row's URL
\* and calls no document read; GetURL whose relational read fails, for whatever
\* reason, returns what the document read returns, URL or error.
C16_RelationalThenDocument ==
    Did("GetURL") =>
        /\ last.sqliteErr = ErrNil =>
            /\ last.mongoErr = NotCalled
            /\ last.err = ErrNil
            /\ \E r \in sqliteUrls :
                   r.alias = last.alias /\ r.user_id = last.userID /\ r.url = last.retURL
        /\ last.sqliteErr # ErrNil =>
            /\ last.mongoErr # NotCalled
            /\ last.err = last.mongoErr
            /\ last.mongoErr # ErrNil => last.retURL = ""
            /\ last.mongoErr = ErrNil =>
                   \E d \in ByAlias(mongoUrls, last.alias) :
                       d.user_id = last.userID /\ d.url = last.retURL

\* The relational read refused the requester and the document read returned
\* the URL the document backend keeps for them.
C16_Witness ==
    /\ Did("GetURL")
    /\ Kind(last.sqliteErr) = "Unauthorized"
    /\ last.mongoErr = ErrNil
    /\ last.err = ErrNil
    /\ last.retURL \in URLs

\* C17: in every reachable state, also while SaveURL and DeleteURL calls on one
\* alias run concurrently, each backend holds at most one record per alias.
C17_OneRecordPerAlias ==
    /\ \A r1 \in sqliteUrls, r2 \in sqliteUrls : r1.alias = r2.alias => r1 = r2
    /\ \A d \in BagToSet(mongoUrls) :
           /\ CopiesIn(d, mongoUrls) = 1
           /\ \A e \in BagToSet(mongoUrls) : e.alias = d.alias => e = d

\* C18: in every reachable state every relational URL row's user_id is the id
\* of a relational user row.
C18_OwnersExist ==
    \A r \in sqliteUrls : \E u \in sqliteUsers : u.id = r.user_id

\* C19: the relational delete of a user is all or nothing: when it returns an
\* error the relational store is as it was, when it returns nil the user's row
\* and every URL row of the user's id are gone and no other row is.
C19_RelationalAllOrNothing ==
    [][last'.op = "DeleteUserByNickname"
       => LET rows == {u \in sqliteUsers : u.nickname = last'.nickname}
              owned == OwnedRows(sqliteUsers, sqliteUrls, last'.nickname)
          IN
          /\ last'.sqliteErr # ErrNil
                => UNCHANGED <<sqliteUsers, sqliteUrls>>
          /\ last'.sqliteErr = ErrNil
                => /\ rows # {}
                   /\ owned # {}
                   /\ sqliteUsers' = sqliteUsers \ rows
                   /\ sqliteUrls' = sqliteUrls \ owned
      ]_vars

\* A delete that failed in the driver for a user who owns URLs: the user and
\* the URLs are all in the relational store.
C19_Witness ==
    /\ Did("DeleteUserByNickname")
    /\ IsDriverError(last.sqliteErr)
    /\ SqliteID(sqliteUsers, last.nickname) # 0
    /\ OwnedRows(sqliteUsers, sqliteUrls, last.nickname) # {}

\* C20: the document delete of a user is all or nothing: when it returns an
\* error the document store is as it was.
C20_DocumentAllOrNothing ==
    [][(/\ last'.op = "DeleteUserByNickname"
        /\ last'.mongoErr # NotCalled
        /\ last'.mongoErr # ErrNil)
       => UNCHANGED <<mongoUsers, mongoUrls>>
      ]_vars

\* C21: a coordinator call made with a cancelled ctx changes neither backend.
C21_CancelledChangesNothing ==
    [][last'.op \in CancelledOperations
       => UNCHANGED <<sqliteUsers, sqliteUrls, mongoUsers, mongoUrls>>
      ]_vars

\* The users the document backend holds, as relational rows.
MongoUsersAsRows ==
    {[id |-> d.user_id, nickname |-> d.nickname, password_hash |-> d.password_hash]
     : d \in BagToSet(mongoUsers)}

\* C22: the same call made on both adapters, none failing in the driver, has
\* the same kind of outcome in both, and both hold the same users and links.
C22_AdaptersAgree ==
    last.op \in AdapterOperations =>
        /\ Kind(last.sqliteErr) = Kind(last.mongoErr)
        /\ sqliteUsers = MongoUsersAsRows
        /\ sqliteUrls = BagToSet(mongoUrls)

\* C23: GetURL and DeleteURL for an alias the adapter's store does not hold,
\* GetUserByNickname and DeleteUserByNickname for a nickname it does not hold,
\* return an error of kind NotFound, in the relational and the document adapter.
C23_AbsentKeyNotFound ==
    [][/\ ( /\ last'.op \in {"sqlite+mongodb.GetURL", "sqlite+mongodb.DeleteURL"}
            /\ \A r \in sqliteUrls : r.alias # last'.alias )
          => Kind(last'.sqliteErr) = "NotFound"
       /\ ( /\ last'.op \in {"sqlite+mongodb.GetURL", "sqlite+mongodb.DeleteURL"}
            /\ ByAlias(mongoUrls, last'.alias) = {} )
          => Kind(last'.mongoErr) = "NotFound"
       /\ ( /\ last'.op \in {"sqlite+mongodb.GetUserByNickname",
                             "sqlite+mongodb.DeleteUserByNickname"}
            /\ \A u \in sqliteUsers : u.nickname # last'.nickname )
          => Kind(last'.sqliteErr) = "NotFound"
       /\ ( /\ last'.op \in {"sqlite+mongodb.GetUserByNickname",
                             "sqlite+mongodb.DeleteUserByNickname"}
            /\ ByNickname(mongoUsers, last'.nickname) = {} )
          => Kind(last'.mongoErr) = "NotFound"
      ]_vars

\* C24: with healthy stores the relational GetURL ends with the stored URL,
\* with NotFound or with Unauthorized, also when SaveURL and DeleteURL on the
\* same alias run between its three reads.
C24_GetURLThreeOutcomes ==
    Did("sqlite.GetURL") =>
        \/ last.sqliteErr = ErrNil /\ last.retURL \in URLs
        \/ Kind(last.sqliteErr) \in {"NotFound", "Unauthorized"}

URLHandlers == {"save.New", "redirect.New", "delete.New"}

URLOperations == {"SaveURL", "GetURL", "DeleteURL"}

\* C25: a URL handler's first coordinator call is GetUserByNickname with the
\* request's nickname; a URL operation is made only after that call returned
\* nil, and with exactly the userID it returned.
C25_OwnerResolvedFirst ==
    (last.op \in URLHandlers /\ last.calls # <<>>) =>
        /\ last.calls[1].op = "GetUserByNickname"
        /\ last.calls[1].nickname = last.nickname
        /\ last.calls[1].err # ErrNil => Len(last.calls) = 1
        /\ \A i \in 2..Len(last.calls) :
            /\ i = 2
            /\ last.calls[i].op \in URLOperations
            /\ last.calls[i].userID = last.calls[1].retUserID

\* A save request for which only the relational backend failed: a userID was
\* returned with the error, and no URL operation followed.
C25_Witness ==
    /\ last.op = "save.New"
    /\ Len(last.calls) = 1
    /\ last.calls[1].err # ErrNil
    /\ last.calls[1].retUserID # 0
    /\ \E u \in sqliteUsers : u.nickname = last.nickname

\* C26: login answers with a token only when GetUserByNickname returned nil
\* and the password verifies against the hash it returned.
C26_TokenNeedsNilAndPassword ==
    (last.op = "login.New" /\ last.response.token # NoToken) =>
        /\ Len(last.calls) = 1
        /\ last.calls[1].op = "GetUserByNickname"
        /\ last.calls[1].nickname = last.nickname
        /\ last.calls[1].err = ErrNil
        /\ CheckPasswordHash(last.password, last.calls[1].retHash)
        /\ last.response.token = GenerateJWT(last.nickname)

\* A login with the right password while only the relational backend fails:
\* a userID comes back with an empty hash and an error, and no token is given.
C26_Witness ==
    /\ last.op = "login.New"
    /\ last.calls[1].err # ErrNil
    /\ last.calls[1].retUserID # 0
    /\ last.calls[1].retHash = ""
    /\ \E u \in sqliteUsers :
           u.nickname = last.nickname /\ CheckPasswordHash(last.password, u.password_hash)
    /\ last.response = RespError

C28_UserIDNeverReassigned ==
    [][\A u \in sqliteUsers \ sqliteUsers' : NextRowID(sqliteUsers') > u.id]_vars

\* C29: save.New answers OK with the alias only when SaveURL returned nil.
C29_SaveOKOnlyOnNil ==
    (last.op = "save.New" /\ last.response.status = "OK") =>
        /\ Len(last.calls) = 2
        /\ last.calls[2].op = "SaveURL"
        /\ last.calls[2].err = ErrNil

\* C30: register.New answers OK only when SaveUser returned nil.
C30_RegisterOKOnlyOnNil ==
    (last.op = "register.New" /\ last.response.status = "OK") =>
        /\ Len(last.calls) = 1
        /\ last.calls[1].op = "SaveUser"
        /\ last.calls[1].err = ErrNil

\* C31: the delete-user handler calls DeleteUserByNickname only for a path
\* nickname that is non-empty and equal to the token's, and with that nickname;
\* any other request makes no call and leaves both backends as they were.
C31_DeleteOwnAccountOnly ==
    [][last'.op = "deleteUser.New"
       => /\ last'.calls # <<>>
             => /\ last'.nickname # ""
                /\ last'.nickname = last'.authNickname
                /\ Len(last'.calls) = 1
                /\ last'.calls[1].op = "DeleteUserByNickname"
                /\ last'.calls[1].nickname = last'.nickname
          /\ (last'.nickname = "" \/ last'.nickname # last'.authNickname)
             => /\ last'.calls = <<>>
                /\ last'.response = RespError
                /\ UNCHANGED <<sqliteUsers, sqliteUrls, mongoUsers, mongoUrls>>
      ]_vars

\* A request to delete another user's account, one that is registered and owns
\* a URL in both backends, was refused.
C31_Witness ==
    /\ last.op = "deleteUser.New"
    /\ last.authNickname # ""
    /\ last.nickname # last.authNickname
    /\ last.response = RespError
    /\ OwnedRows(sqliteUsers, sqliteUrls, last.nickname) # {}
    /\ \E d \in BagToSet(mongoUrls) : d.user_id = SqliteID(sqliteUsers, last.nickname)

====
